---- MODULE Spec2Model ----
(***************************************************************************)
(* Model of the extraction pipeline of the financial data extractor        *)
(* (src/mined.py): period resolver, table locator, column mapper, row      *)
(* classifier, LLM fallback (response text, JSON parse, merge), and the    *)
(* chat history of the results page.                                       *)
(*                                                                         *)
(* Python values are tagged records: None, float, str, dict, list.         *)
(* Strings are TLA+ strings; substring search, lower-casing, comma         *)
(* stripping and number parsing are computed character by character.       *)
(* A float is held as an integer number of hundredths.                     *)
(***************************************************************************)
EXTENDS Integers, Sequences, FiniteSets, TLC

VARIABLES
    pc,              \* position of the running function
    table,           \* extract_financial_values: its argument
    cq_idx,          \* extract_financial_values: current_quarter_col_index
    an_idx,          \* extract_financial_values: annual_col_index
    row_i,           \* extract_financial_values: 0-based index of the next row of the loop
    extracted_data,  \* extract_financial_values: the dict being filled / returned
    text,            \* extract_dates_from_text: its argument
    dates,           \* extract_dates_from_text: the strings the pattern found
    formatted_dates, \* extract_dates_from_text: the dates parsed from them
    periods,         \* extract_dates_from_text: the pair returned
    pdf,             \* extract_fin_data: the document at pdf_path
    extracted_text,  \* extract_fin_data: the text of all pages
    full_financial_text, \* st.session_state.full_financial_text
    quarters,        \* extract_fin_data: (current_quarter, previous_quarter)
    fin_unit,        \* extract_fin_data
    fin_data,        \* extract_fin_data
    company_name,    \* extract_fin_data
    ai_data,         \* extract_fin_data
    llm_calls,       \* the number of requests made to the LLM
    response,        \* use_gemini_extraction: what the LLM answered
    result,          \* extract_fin_data: what it returned or raised
    chat_history,    \* st.session_state.chat_history
    last_handled_query, \* st.session_state.last_handled_query
    user_query       \* main: the value of the chat_input text box

tableVars == <<table, cq_idx, an_idx, row_i, extracted_data>>
dateVars == <<text, dates, formatted_dates, periods>>
pipeVars == <<pdf, extracted_text, full_financial_text, quarters, fin_unit, fin_data,
              company_name, ai_data, llm_calls, response, result>>
chatVars == <<chat_history, last_handled_query, user_query>>
vars == <<pc, tableVars, dateVars, pipeVars, chatVars>>

-----------------------------------------------------------------------------
(* Python values *)

PyNone == [t |-> "None"]
PyFloat(v) == [t |-> "float", v |-> v]
PyStr(s) == [t |-> "str", s |-> s]
PyInt(v) == [t |-> "int", v |-> v]
PyList(xs) == [t |-> "list", xs |-> xs]
PyDict(f) == [t |-> "dict", d |-> f]
PyRaise(e) == [t |-> "raise", exc |-> e]

\* bool(x) of a Python value
Truthy(x) ==
    CASE x.t = "None" -> FALSE
      [] x.t = "float" -> x.v # 0
      [] x.t = "int" -> x.v # 0
      [] x.t = "str" -> x.s # ""
      [] x.t = "list" -> x.xs # <<>>
      [] x.t = "dict" -> DOMAIN x.d # {}
      [] OTHER -> TRUE

\* seq[i] with Python's 0-based index
At(seq, i) == seq[i + 1]

-----------------------------------------------------------------------------
(* Strings *)

UpperAlpha == "ABCDEFGHIJKLMNOPQRSTUVWXYZ"
LowerAlpha == "abcdefghijklmnopqrstuvwxyz"
Digits == "0123456789"

Ch(s, i) == SubSeq(s, i, i)

\* 0 when c is not a character of alphabet, else its 1-based position
PosIn(c, alphabet) ==
    IF \E i \in 1..Len(alphabet) : Ch(alphabet, i) = c
    THEN CHOOSE i \in 1..Len(alphabet) : Ch(alphabet, i) = c
    ELSE 0

\* the value of each digit character
DigitOf == [c \in {Ch(Digits, i) : i \in 1..Len(Digits)} |-> PosIn(c, Digits) - 1]

IsDigit(c) == c \in DOMAIN DigitOf
DigitVal(c) == DigitOf[c]

\* the lower-case letter of each upper-case letter
LowerOf == [c \in {Ch(UpperAlpha, i) : i \in 1..Len(UpperAlpha)} |-> Ch(LowerAlpha, PosIn(c, UpperAlpha))]

LowerChar(c) == IF c \in DOMAIN LowerOf THEN LowerOf[c] ELSE c

RECURSIVE Lower(_)
\* str.lower()
Lower(s) == IF s = "" THEN "" ELSE LowerChar(Ch(s, 1)) \o Lower(SubSeq(s, 2, Len(s)))

\* `sub in s`
Contains(s, sub) ==
    \E i \in 1..(Len(s) - Len(sub) + 1) : SubSeq(s, i, i + Len(sub) - 1) = sub

RECURSIVE RemoveChar(_, _)
\* s.replace(c, "") for a one-character c
RemoveChar(s, c) ==
    IF s = "" THEN ""
    ELSE (IF Ch(s, 1) = c THEN "" ELSE Ch(s, 1)) \o RemoveChar(SubSeq(s, 2, Len(s)), c)

IsSpace(c) == c \in {" ", "\t", "\n", "\r"}

RECURSIVE LStrip(_)
LStrip(s) == IF s # "" /\ IsSpace(Ch(s, 1)) THEN LStrip(SubSeq(s, 2, Len(s))) ELSE s

RECURSIVE RStrip(_)
RStrip(s) == IF s # "" /\ IsSpace(Ch(s, Len(s))) THEN RStrip(SubSeq(s, 1, Len(s) - 1)) ELSE s

\* str.strip()
Strip(s) == RStrip(LStrip(s))

AllDigits(s) == \A i \in 1..Len(s) : IsDigit(Ch(s, i))

RECURSIVE DigitsVal(_)
\* the number a string of digits writes
DigitsVal(s) == IF s = "" THEN 0 ELSE 10 * DigitsVal(SubSeq(s, 1, Len(s) - 1)) + DigitVal(Ch(s, Len(s)))

\* The decimal literals float() accepts: [+-] digits [. digits] or [+-] . digits,
\* surrounded by optional whitespace. Exponents, inf, nan and digit-group
\* underscores are outside the cells of this model. The value is in hundredths;
\* the cells of this model carry at most two fractional digits.
FloatBody(s) == IF s # "" /\ Ch(s, 1) \in {"+", "-"} THEN SubSeq(s, 2, Len(s)) ELSE s
FloatSign(s) == IF s # "" /\ Ch(s, 1) = "-" THEN -1 ELSE 1
DotPos(s) == IF Contains(s, ".") THEN CHOOSE i \in 1..Len(s) : Ch(s, i) = "." /\ ~Contains(SubSeq(s, 1, i - 1), ".") ELSE 0
IntPart(s) == IF DotPos(s) = 0 THEN s ELSE SubSeq(s, 1, DotPos(s) - 1)
FracPart(s) == IF DotPos(s) = 0 THEN "" ELSE SubSeq(s, DotPos(s) + 1, Len(s))

IsFloatLiteral(s) ==
    LET b == FloatBody(Strip(s))
    IN /\ AllDigits(IntPart(b))
       /\ AllDigits(FracPart(b))
       /\ Len(IntPart(b)) + Len(FracPart(b)) > 0

\* float(s): a float, or ValueError
float(s) ==
    LET b == FloatBody(Strip(s))
        f == SubSeq(FracPart(b) \o "00", 1, 2)
    IN IF IsFloatLiteral(s)
       THEN PyFloat(FloatSign(Strip(s)) * (100 * DigitsVal(IntPart(b)) + DigitsVal(f)))
       ELSE PyRaise("ValueError")

-----------------------------------------------------------------------------
(* Financial term dictionaries, lines 18-32 *)

Term(s, p) == [term |-> s, priority |-> p]

RT == {
    Term("revenue from operations", 1), Term("Total Revenue", 2), Term("Turnover", 3),
    Term("Net Sales", 4), Term("Gross Revenue", 5), Term("Operating Revenue", 6),
    Term("Revenues", 7), Term("Receipts", 8), Term("Income from Operations", 9),
    Term("Business Income", 10), Term("Gross Sales", 11) }

OPT == {
    Term("Operating Profit", 1), Term("EBIT", 2), Term("Earnings Before Interest and Tax", 3),
    Term("Profit Before Tax", 4), Term("PBIT", 5), Term("Operating Income", 6),
    Term("Operating Earnings", 7), Term("Core Earnings", 8), Term("NOP", 9),
    Term("NOPAT", 10), Term("Operating Margin", 11), Term("Pre-Tax Operating Profit", 12) }

NPT == {
    Term("Net Profit", 1), Term("Net Income", 2), Term("Profit After Tax", 3), Term("PAT", 4),
    Term("Earnings After Tax", 5), Term("Final Profit", 6), Term("Net Earnings", 7),
    Term("Total Comprehensive Income", 8), Term("Post-Tax Profit", 9) }

\* term.lower() of every term of the dictionaries
TermLower == [s \in {m.term : m \in RT \cup OPT \cup NPT} |-> Lower(s)]

\* the field each dictionary fills
Metrics == {"Revenue", "Operating Profit", "Net Profit"}
TermDict(metric) ==
    CASE metric = "Revenue" -> RT
      [] metric = "Operating Profit" -> OPT
      [] metric = "Net Profit" -> NPT

-----------------------------------------------------------------------------
(* dict operations *)

\* dct[k] = v
DictSet(dct, k, v) ==
    PyDict([x \in DOMAIN dct.d \cup {k} |-> IF x = k THEN v ELSE dct.d[x]])

\* dct.update(other) for a dict other
DictUpdate(dct, other) ==
    PyDict([x \in DOMAIN dct.d \cup DOMAIN other.d |->
                IF x \in DOMAIN other.d THEN other.d[x] ELSE dct.d[x]])

\* dct.get(k, default)
DictGet(dct, k, default) == IF k \in DOMAIN dct.d THEN dct.d[k] ELSE default

\* any(dct.values())
AnyValues(dct) == \E k \in DOMAIN dct.d : Truthy(dct.d[k])

EmptyDict == PyDict([k \in {} |-> PyNone])

\* data[period][metric]
Field(data, period, metric) == data.d[period].d[metric]

\* data[period][metric] = v
SetField(data, period, metric, v) == DictSet(data, period, DictSet(data.d[period], metric, v))

-----------------------------------------------------------------------------
(* extract_financial_values, lines 88-134 *)

Periods == {"Current Quarter", "Annual Data"}

\* lines 90-93
EmptyExtracted ==
    PyDict([p \in Periods |-> PyDict([m \in Metrics |-> PyNone])])

\* table[0]: the first row of a list of rows, the first character of a string
Header(tbl) ==
    IF tbl.t = "str" THEN <<PyStr(Ch(tbl.s, 1))>> ELSE At(tbl.xs, 0)

\* the rows `for row in table` visits
Rows(tbl) == tbl.xs

RECURSIVE MapColumns_Off(_, _, _)
\* MapColumns taking the annual column one to the right of its marker as well
MapColumns_Off(header, i, acc) ==
    IF i >= Len(header) THEN acc
    ELSE LET cell == At(header, i)
             cq == IF Truthy(cell) /\ Contains(cell.s, "Particular") THEN PyInt(i + 1) ELSE acc[1]
             an == IF Truthy(cell) /\ Contains(Lower(cell.s), "year ended") THEN PyInt(i + 1) ELSE acc[2]
         IN MapColumns_Off(header, i + 1, <<cq, an>>)

RECURSIVE MapColumns(_, _, _)
\* lines 98-105: the loop over enumerate(header), from index i on, with the
\* indices found so far in acc = <<current_quarter_col_index, annual_col_index>>
MapColumns(header, i, acc) ==
    IF i >= Len(header) THEN acc
    ELSE LET cell == At(header, i)
             cq == IF Truthy(cell) /\ Contains(cell.s, "Particular") THEN PyInt(i + 1) ELSE acc[1]
             an == IF Truthy(cell) /\ Contains(Lower(cell.s), "year ended") THEN PyInt(i) ELSE acc[2]
         IN MapColumns(header, i + 1, <<cq, an>>)

\* lines 110-114
select_highest_priority(term_dict, row_text) ==
    IF row_text = PyNone THEN PyNone
    ELSE LET lowered == Lower(row_text.s)
             matches == {m \in term_dict : Contains(lowered, TermLower[m.term])}
         IN IF matches = {} THEN PyNone
            ELSE PyStr((CHOOSE m \in matches : \A o \in matches : m.priority <= o.priority).term)

\* float(row[idx].replace(",", "")) if idx < len(row) and row[idx] else None
CellValue(row, idx) ==
    IF idx < Len(row) /\ Truthy(At(row, idx))
    THEN float(RemoveChar(At(row, idx).s, ","))
    ELSE PyNone

\* SetMetric keeping the first value a field was given
SetMetric_FirstWins(data, row, cq, an, metric) ==
    IF data.t = "raise" THEN data
    ELSE IF ~Truthy(select_highest_priority(TermDict(metric), At(row, 0))) THEN data
    ELSE LET c == CellValue(row, cq)
             a == CellValue(row, an)
             keep(p, v) == IF Field(data, p, metric) = PyNone THEN v ELSE Field(data, p, metric)
         IN IF c.t = "raise" THEN c
            ELSE IF a.t = "raise" THEN a
            ELSE SetField(SetField(data, "Current Quarter", metric, keep("Current Quarter", c)),
                          "Annual Data", metric, keep("Annual Data", a))

\* SetMetric leaving both fields unset unless both cells give a value
SetMetric_Coupled(data, row, cq, an, metric) ==
    IF data.t = "raise" THEN data
    ELSE IF ~Truthy(select_highest_priority(TermDict(metric), At(row, 0))) THEN data
    ELSE LET c == CellValue(row, cq)
             a == CellValue(row, an)
             both(v) == IF c = PyNone \/ a = PyNone THEN PyNone ELSE v
         IN IF c.t = "raise" THEN c
            ELSE IF a.t = "raise" THEN a
            ELSE SetField(SetField(data, "Current Quarter", metric, both(c)),
                          "Annual Data", metric, both(a))

\* lines 124-126 (127-129, 130-132): one `if <metric>_match:` block. A ValueError
\* of float() leaves the function at once.
SetMetric(data, row, cq, an, metric) ==
    IF data.t = "raise" THEN data
    ELSE IF ~Truthy(select_highest_priority(TermDict(metric), At(row, 0))) THEN data
    ELSE LET c == CellValue(row, cq)
             a == CellValue(row, an)
         IN IF c.t = "raise" THEN c
            ELSE IF a.t = "raise" THEN a
            ELSE SetField(SetField(data, "Current Quarter", metric, c), "Annual Data", metric, a)

\* ProcessRow with the three blocks chained by elif: one dictionary per row
ProcessRow_Elif(data, row, cq, an) ==
    IF row = <<>> \/ At(row, 0) = PyNone THEN data
    ELSE IF Truthy(select_highest_priority(RT, At(row, 0))) THEN SetMetric(data, row, cq, an, "Revenue")
    ELSE IF Truthy(select_highest_priority(OPT, At(row, 0))) THEN SetMetric(data, row, cq, an, "Operating Profit")
    ELSE SetMetric(data, row, cq, an, "Net Profit")

\* lines 117-132: the body of `for row in table`
ProcessRow(data, row, cq, an) ==
    IF row = <<>> \/ At(row, 0) = PyNone THEN data
    ELSE SetMetric(SetMetric(SetMetric(data, row, cq, an, "Revenue"),
                             row, cq, an, "Operating Profit"),
                   row, cq, an, "Net Profit")

RECURSIVE RowLoop(_, _, _, _, _)
\* lines 116-134: the loop from row i on
RowLoop(data, rows, i, cq, an) ==
    IF data.t = "raise" \/ i >= Len(rows) THEN data
    ELSE RowLoop(ProcessRow(data, At(rows, i), cq, an), rows, i + 1, cq, an)

\* lines 94-95: `if not table`
NoTable(tbl) == ~Truthy(tbl)

\* lines 88-134: the dict returned, or the exception raised
extract_financial_values(tbl) ==
    IF NoTable(tbl) THEN EmptyExtracted
    ELSE LET idx == MapColumns(Header(tbl), 0, <<PyNone, PyNone>>)
         IN IF idx[1] = PyNone \/ idx[2] = PyNone THEN EmptyExtracted
            ELSE RowLoop(EmptyExtracted, Rows(tbl), 0, idx[1].v, idx[2].v)

-----------------------------------------------------------------------------
(* extract_dates_from_text, lines 34-61 *)

WordChars == UpperAlpha \o LowerAlpha \o Digits \o "_"
WordSet == {Ch(WordChars, i) : i \in 1..Len(WordChars)}

\* \w at position i of s; FALSE outside the string
IsWordAt(s, i) == i >= 1 /\ i <= Len(s) /\ Ch(s, i) \in WordSet

\* \b between positions i-1 and i of s
BoundaryAt(s, i) == IsWordAt(s, i - 1) # IsWordAt(s, i)

RECURSIVE DigitRun(_, _)
\* the number of consecutive digits of s from position i on
DigitRun(s, i) ==
    IF i <= Len(s) /\ IsDigit(Ch(s, i)) THEN 1 + DigitRun(s, i + 1) ELSE 0

IsDateSep(s, i) == i <= Len(s) /\ Ch(s, i) \in {"/", "-"}

\* line 36: \b(\d{1,2}[/-]\d{1,2}[/-]\d{2,4})\b matched at position i of s:
\* the position of the last character of the match, or 0. The greedy counts
\* can only stop where a separator or a boundary follows, so each digit group
\* is a whole run of digits.
MatchDateAt(s, i) ==
    LET n1 == DigitRun(s, i)
        p1 == i + n1
        n2 == DigitRun(s, p1 + 1)
        p2 == p1 + 1 + n2
        n3 == DigitRun(s, p2 + 1)
        e == p2 + n3
    IN IF /\ BoundaryAt(s, i)
          /\ n1 \in {1, 2} /\ IsDateSep(s, p1)
          /\ n2 \in {1, 2} /\ IsDateSep(s, p2)
          /\ n3 \in {2, 3, 4} /\ BoundaryAt(s, e + 1)
       THEN e
       ELSE 0

RECURSIVE FindDates(_, _)
\* line 37: re.findall(date_pattern, text), scanning from position i
FindDates(s, i) ==
    IF i > Len(s) THEN <<>>
    ELSE IF MatchDateAt(s, i) # 0
         THEN <<SubSeq(s, i, MatchDateAt(s, i))>> \o FindDates(s, MatchDateAt(s, i) + 1)
         ELSE FindDates(s, i + 1)

\* line 41: the formats tried in order: the separator and the digits of the year
DateFormats == << [sep |-> "-", ydigits |-> 4], [sep |-> "/", ydigits |-> 4],
                  [sep |-> "-", ydigits |-> 2], [sep |-> "/", ydigits |-> 2] >>

IsLeap(y) == (y % 4 = 0 /\ y % 100 # 0) \/ y % 400 = 0

DaysInMonth(y, m) ==
    IF m = 2 THEN (IF IsLeap(y) THEN 29 ELSE 28)
    ELSE IF m \in {4, 6, 9, 11} THEN 30 ELSE 31

\* %y: 69-99 are 1969-1999, 00-68 are 2000-2068
TwoDigitYear(yy) == IF yy <= 68 THEN 2000 + yy ELSE 1900 + yy

\* line 43: datetime.strptime(date_str, fmt) for a string the pattern matched:
\* a date [year, month, day], or ValueError. %d takes 01-31 or 1-9, %m 01-12 or
\* 1-9, %Y four digits, %y two; the whole string must be consumed and the day
\* must exist in the month.
strptime(date_str, fmt) ==
    LET n1 == DigitRun(date_str, 1)
        p1 == 1 + n1
        n2 == DigitRun(date_str, p1 + 1)
        p2 == p1 + 1 + n2
        ys == SubSeq(date_str, p2 + 1, Len(date_str))
        day == DigitsVal(SubSeq(date_str, 1, n1))
        month == DigitsVal(SubSeq(date_str, p1 + 1, p2 - 1))
        year == IF fmt.ydigits = 4 THEN DigitsVal(ys) ELSE TwoDigitYear(DigitsVal(ys))
    IN IF /\ Ch(date_str, p1) = fmt.sep
          /\ Ch(date_str, p2) = fmt.sep
          /\ Len(ys) = fmt.ydigits
          /\ day >= 1 /\ day <= 31
          /\ month >= 1 /\ month <= 12
          /\ year >= 1
          /\ day <= DaysInMonth(year, month)
       THEN [t |-> "datetime", year |-> year, month |-> month, day |-> day]
       ELSE PyRaise("ValueError")

RECURSIVE ParseFirst(_, _)
\* lines 41-46: the first format, from the k-th on, that parses date_str; the
\* empty sequence when none does
ParseFirst(date_str, k) ==
    IF k > Len(DateFormats) THEN <<>>
    ELSE IF strptime(date_str, DateFormats[k]).t # "raise"
         THEN <<strptime(date_str, DateFormats[k])>>
         ELSE ParseFirst(date_str, k + 1)

RECURSIVE ParseDates(_)
\* lines 40-46
ParseDates(ds) ==
    IF ds = <<>> THEN <<>> ELSE ParseFirst(Head(ds), 1) \o ParseDates(Tail(ds))

\* datetime order
DateKey(d) == d.year * 10000 + d.month * 100 + d.day

RECURSIVE InsertDesc(_, _)
InsertDesc(sorted, d) ==
    IF sorted = <<>> THEN <<d>>
    ELSE IF DateKey(d) > DateKey(Head(sorted)) THEN <<d>> \o sorted
    ELSE <<Head(sorted)>> \o InsertDesc(Tail(sorted), d)

RECURSIVE SortedDesc_Distinct(_)
\* SortedDesc dropping dates equal to one already kept
SortedDesc_Distinct(ds) ==
    IF ds = <<>> THEN <<>>
    ELSE LET rest == SortedDesc_Distinct(SubSeq(ds, 1, Len(ds) - 1))
         IN IF \E k \in 1..Len(rest) : rest[k] = ds[Len(ds)] THEN rest ELSE InsertDesc(rest, ds[Len(ds)])

RECURSIVE SortedDesc(_)
\* line 51: sorted(formatted_dates, reverse=True)
SortedDesc(ds) ==
    IF ds = <<>> THEN <<>> ELSE InsertDesc(SortedDesc(SubSeq(ds, 1, Len(ds) - 1)), ds[Len(ds)])

RECURSIVE IntToStr(_)
\* str(n) for n >= 0
IntToStr(n) ==
    IF n < 10 THEN Ch(Digits, n + 1) ELSE IntToStr(n \div 10) \o Ch(Digits, (n % 10) + 1)

\* lines 54, 58
QuarterOf(d) == ((d.month - 1) \div 3) + 1

\* line 61: f"Q{quarter} {year}"
PeriodLabel(d) == PyStr("Q" \o IntToStr(QuarterOf(d)) \o " " \o IntToStr(d.year))

\* lines 48-61, from the parsed dates
PeriodsOf(parsed) ==
    IF parsed = <<>> THEN <<PyNone, PyNone>>
    ELSE LET sorted_dates == SortedDesc(parsed)
         IN << PeriodLabel(sorted_dates[1]),
               IF Len(sorted_dates) > 1 THEN PeriodLabel(sorted_dates[2]) ELSE PyNone >>

\* lines 34-61
extract_dates_from_text(txt) == PeriodsOf(ParseDates(FindDates(txt, 1)))

-----------------------------------------------------------------------------
(* extract_table_or_text and extract_text_from_image, lines 63-86 *)

\* A document is a sequence of pages; a page has the text page.extract_text()
\* gives (None or a string), the tables page.extract_tables() gives (each a
\* non-empty sequence of rows) and the text OCR reads from its image.

\* lines 79-86: one image per page
extract_text_from_image(doc, page_number) == Strip(doc[page_number].ocr \o "\n")

\* line 70: any("Particulars" in str(cell) for cell in table[0] if cell)
HasParticularsHeader(tbl) ==
    \E i \in 0..(Len(At(tbl, 0)) - 1) :
        Truthy(At(At(tbl, 0), i)) /\ Contains(At(At(tbl, 0), i).s, "Particulars")

\* lines 68-72: the first table of the page with the marker, as a sequence of
\* at most one table
FirstMarked(tables) ==
    LET marked == {k \in 1..Len(tables) : HasParticularsHeader(tables[k])}
    IN IF marked = {} THEN <<>>
       ELSE <<tables[CHOOSE k \in marked : \A o \in marked : k <= o]>>

\* lines 63-77. The return of line 75 is inside the loop over the pages, so the
\* loop body runs for the first page only: its marked table, else its OCR text,
\* else None. Line 77 is reached with no page at all.
extract_table_or_text(doc) ==
    IF doc = <<>> THEN PyNone
    ELSE IF FirstMarked(doc[1].tables) # <<>> THEN PyList(FirstMarked(doc[1].tables)[1])
    ELSE LET ocr_text == extract_text_from_image(doc, 1)
         IN IF Strip(ocr_text) # "" THEN PyStr(ocr_text) ELSE PyNone

-----------------------------------------------------------------------------
(* detect_fin_unit, extract_company_name and the year search, lines 178-189, 220 *)

Units == <<"Crores", "Lakhs", "Millions", "Billions">>

RECURSIVE UnitFrom(_, _)
\* lines 181-184, from the k-th unit on
UnitFrom(lowered, k) ==
    IF k > Len(Units) THEN "Unknown"
    ELSE IF Contains(lowered, Lower(Units[k])) THEN Units[k]
    ELSE UnitFrom(lowered, k + 1)

\* lines 178-184
detect_fin_unit(txt) == PyStr(UnitFrom(Lower(txt), 1))

RECURSIVE YearFrom(_, _)
\* line 220: re.search(r"\b\d{4}\b", text), scanning from position i
YearFrom(txt, i) ==
    IF i > Len(txt) THEN "Unknown Year"
    ELSE IF BoundaryAt(txt, i) /\ DigitRun(txt, i) = 4 /\ BoundaryAt(txt, i + 4)
         THEN SubSeq(txt, i, i + 3)
         ELSE YearFrom(txt, i + 1)

find_year(txt) == PyStr(YearFrom(txt, 1))

CompanyPhrases == {"company name", "statement of", "financial report of"}

NameChars == UpperAlpha \o LowerAlpha \o Digits \o "&., \t\n\r"
NameSet == {Ch(NameChars, i) : i \in 1..Len(NameChars)}

\* the end (0 when none) of a phrase of line 188 starting at position i, in any case
PhraseEnd(txt, i) ==
    LET hits == {ph \in CompanyPhrases :
                    i + Len(ph) - 1 <= Len(txt) /\ Lower(SubSeq(txt, i, i + Len(ph) - 1)) = ph}
    IN IF hits = {} THEN 0 ELSE i + Len(CHOOSE ph \in hits : TRUE) - 1

RECURSIVE RunOf(_, _, _)
\* the number of consecutive characters of txt from position i on that are in set
RunOf(txt, i, set) ==
    IF i <= Len(txt) /\ Ch(txt, i) \in set THEN 1 + RunOf(txt, i + 1, set) ELSE 0

\* line 188 matched at position i: where group 1 starts, or 0. \s*[:\-\s]* takes
\* the whole run of separators when a name character follows it; otherwise it
\* gives back characters until the group can start on a white-space one.
NameStart(txt, i) ==
    LET e == PhraseEnd(txt, i)
        r == RunOf(txt, e + 1, {":", "-", " ", "\t", "\n", "\r"})
        after == e + 1 + r
        spaces == {q \in (e + 1)..(e + r) : IsSpace(Ch(txt, q))}
    IN IF e = 0 THEN 0
       ELSE IF after <= Len(txt) /\ Ch(txt, after) \in NameSet THEN after
       ELSE IF spaces # {} THEN CHOOSE q \in spaces : \A o \in spaces : o <= q
       ELSE 0

RECURSIVE CompanyFrom(_, _)
\* lines 188-189, scanning from position i
CompanyFrom(txt, i) ==
    IF i > Len(txt) THEN "Unknown Company"
    ELSE IF NameStart(txt, i) # 0
         THEN Strip(SubSeq(txt, NameStart(txt, i), NameStart(txt, i) + RunOf(txt, NameStart(txt, i), NameSet) - 1))
         ELSE CompanyFrom(txt, i + 1)

\* lines 186-189
extract_company_name(txt) == PyStr(CompanyFrom(txt, 1))

-----------------------------------------------------------------------------
(* Tables given to extract_financial_values *)

MaxCols == 3
MaxRows == 2

S(s) == PyStr(s)

\* header cells: with either marker, with both, with neither, in the wrong case
HeaderCells == {
    PyNone, S("Particulars"), S("Year Ended 31 Mar 2024"), S("Quarter ended"),
    S("PARTICULARS"), S("Particulars for the year ended") }

\* all sequences over set of length lo..hi
SeqsOf(set, lo, hi) == UNION {[1..n -> set] : n \in lo..hi}

AllHeaders == SeqsOf(HeaderCells, 0, MaxCols)

StdHeader == <<S("Particulars"), S("Quarter ended"), S("Year ended")>>

SomeHeaders == {
    StdHeader,
    <<S("Year ended"), S("Particulars"), S("Quarter ended")>>,
    <<S("Sr"), S("Year ended"), S("Particulars")>>,
    <<S("Particulars of Revenues"), S("31.12.2023"), S("year ended 31.03.2024")>>,
    <<S("Particulars"), S("Quarter ended"), S("Half year"), S("Year ended")>>,
    <<S("Sr"), PyNone, S("Particulars"), S("Quarter ended"), S("Half year"), S("Year Ended 31 Mar 2024")>> }

\* data rows: label, current-period cell, annual cell
PlainRows ==
    { <<l, c, a>> : l \in {S("Total Revenue"), S("NOPAT")},
                    c \in {S("1,234.50"), S("0"), S("")},
                    a \in {S("5,678.90"), PyNone} }

OddRows == {
    <<>>,
    <<PyNone, S("1"), S("2")>>,
    <<S("Total Revenue")>>,
    <<S("Other Expenses"), S("7"), S("8")>>,
    <<S("Turnover, EBIT and PAT"), S("9"), S("-10")>>,
    <<S("Net Sales"), S("11"), S("N/A")>>,
    <<S("Total Revenue"), S("1,234.50"), S("-"), S("5,678.90")>> }

DataRows == PlainRows \cup OddRows

SomeBodies == {
    <<>>,
    << <<S("Total Revenue"), S("1,234.50"), S("5,678.90")>> >>,
    << <<S("NOPAT"), S("9"), S("10")>>, <<S("Net Sales"), S("3"), S("4")>> >> }

Tables ==
    {PyNone, PyList(<<>>), S("Revenue 100 Crores")}
    \cup {PyList(<<h>> \o b) : h \in AllHeaders, b \in SomeBodies}
    \cup {PyList(<<h>> \o b) : h \in SomeHeaders, b \in SeqsOf(DataRows, 0, MaxRows)}

-----------------------------------------------------------------------------
(* extract_financial_values, run row by row *)

\* lines 90-108: up to the loop, or the early return
EFV_Begin ==
    /\ pc = "efv_start"
    /\ extracted_data' = EmptyExtracted
    /\ row_i' = 0
    /\ IF NoTable(table)
       THEN /\ pc' = "efv_done"
            /\ UNCHANGED <<cq_idx, an_idx>>
       ELSE LET idx == MapColumns(Header(table), 0, <<PyNone, PyNone>>)
            IN /\ cq_idx' = idx[1]
               /\ an_idx' = idx[2]
               /\ pc' = IF idx[1] = PyNone \/ idx[2] = PyNone THEN "efv_done" ELSE "efv_loop"
    /\ UNCHANGED <<table, dateVars, pipeVars>>
    /\ UNCHANGED chatVars

\* lines 116-132: one iteration of `for row in table`. An escaping ValueError
\* discards the frame, so the dict is left as it was.
EFV_Row ==
    /\ pc = "efv_loop"
    /\ row_i < Len(Rows(table))
    /\ LET r == ProcessRow(extracted_data, At(Rows(table), row_i), cq_idx.v, an_idx.v)
       IN IF r.t = "raise"
          THEN /\ pc' = "efv_raised"
               /\ UNCHANGED extracted_data
          ELSE /\ pc' = "efv_loop"
               /\ extracted_data' = r
    /\ row_i' = row_i + 1
    /\ UNCHANGED <<table, cq_idx, an_idx, dateVars, pipeVars>>
    /\ UNCHANGED chatVars

\* line 134
EFV_Return ==
    /\ pc = "efv_loop"
    /\ row_i >= Len(Rows(table))
    /\ pc' = "efv_done"
    /\ UNCHANGED <<tableVars, dateVars, pipeVars>>
    /\ UNCHANGED chatVars

\* no call of extract_financial_values is running
IdleTable ==
    /\ table = PyNone
    /\ cq_idx = PyNone
    /\ an_idx = PyNone
    /\ row_i = 0
    /\ extracted_data = EmptyExtracted

\* no call of extract_dates_from_text is running
IdleDates ==
    /\ text = ""
    /\ dates = <<>>
    /\ formatted_dates = <<>>
    /\ periods = <<PyNone, PyNone>>

\* no session of the application is open
IdleChat ==
    /\ chat_history = PyNone
    /\ last_handled_query = PyNone
    /\ user_query = ""

\* no call of extract_fin_data is running
IdlePipe ==
    /\ pdf = <<>>
    /\ extracted_text = ""
    /\ full_financial_text = ""
    /\ quarters = <<PyNone, PyNone>>
    /\ fin_unit = PyNone
    /\ fin_data = PyNone
    /\ company_name = PyNone
    /\ ai_data = PyNone
    /\ llm_calls = 0
    /\ response = PyNone
    /\ result = PyNone

InitTable ==
    /\ pc = "efv_start"
    /\ table \in Tables
    /\ cq_idx = PyNone
    /\ an_idx = PyNone
    /\ row_i = 0
    /\ extracted_data = EmptyExtracted
    /\ IdleDates
    /\ IdlePipe
    /\ IdleChat

NextTable == EFV_Begin \/ EFV_Row \/ EFV_Return

SpecTable == InitTable /\ [][NextTable]_vars

-----------------------------------------------------------------------------
(* extract_dates_from_text, run step by step on texts made of date-like words *)

MaxDates == 3

DateWords == {
    "15-03-2024", "10-12-2023", "31/12/23", "1-2-69",
    "31-02-2024", "15-03/2024", "7-7-777", "Q3 FY24" }

RECURSIVE JoinWords(_)
\* the words separated by single spaces
JoinWords(ws) ==
    IF ws = <<>> THEN ""
    ELSE IF Len(ws) = 1 THEN ws[1]
    ELSE ws[1] \o " " \o JoinWords(Tail(ws))

Texts == {JoinWords(ws) : ws \in SeqsOf(DateWords, 0, MaxDates)}

\* lines 36-37
Dates_Find ==
    /\ pc = "dates_start"
    /\ dates' = FindDates(text, 1)
    /\ pc' = "dates_found"
    /\ UNCHANGED <<text, formatted_dates, periods, tableVars, pipeVars>>
    /\ UNCHANGED chatVars

\* lines 38-46
Dates_Parse ==
    /\ pc = "dates_found"
    /\ formatted_dates' = ParseDates(dates)
    /\ pc' = "dates_parsed"
    /\ UNCHANGED <<text, dates, periods, tableVars, pipeVars>>
    /\ UNCHANGED chatVars

\* lines 48-61
Dates_Return ==
    /\ pc = "dates_parsed"
    /\ periods' = PeriodsOf(formatted_dates)
    /\ pc' = "dates_done"
    /\ UNCHANGED <<text, dates, formatted_dates, tableVars, pipeVars>>
    /\ UNCHANGED chatVars

InitDates ==
    /\ pc = "dates_start"
    /\ text \in Texts
    /\ dates = <<>>
    /\ formatted_dates = <<>>
    /\ periods = <<PyNone, PyNone>>
    /\ IdleTable
    /\ IdlePipe
    /\ IdleChat

NextDates == Dates_Find \/ Dates_Parse \/ Dates_Return

SpecDates == InitDates /\ [][NextDates]_vars

-----------------------------------------------------------------------------
(* Properties of extract_dates_from_text *)

\* "Q<q> <year>" with q = ((month-1) div 3)+1
QuarterLabel(d) == S("Q" \o IntToStr(((d.month - 1) \div 3) + 1) \o " " \o IntToStr(d.year))

\* d is not earlier than any parsed date with an index in idxs
IsLatestOf(d, idxs) == \A k \in idxs : DateKey(formatted_dates[k]) <= DateKey(d)

\* C9: no parsable date gives (None, None); exactly one gives its period and
\* None; two or more give the period of a latest date and the period of a latest
\* one among the other entries (an equal duplicate included); every quarter is
\* ((month-1) div 3)+1 and lies in 1..4; "15-03-2024" and "10-12-2023" give
\* ("Q1 2024", "Q4 2023").
C9_Periods ==
    /\ extract_dates_from_text("15-03-2024 10-12-2023") = <<S("Q1 2024"), S("Q4 2023")>>
    /\ pc = "dates_done" =>
         LET n == Len(formatted_dates)
         IN /\ n = 0 => periods = <<PyNone, PyNone>>
            /\ n = 1 => periods = <<QuarterLabel(formatted_dates[1]), PyNone>>
            /\ n >= 2 =>
                 \E i, j \in 1..n :
                    /\ i # j
                    /\ IsLatestOf(formatted_dates[i], 1..n)
                    /\ IsLatestOf(formatted_dates[j], (1..n) \ {i})
                    /\ periods = <<QuarterLabel(formatted_dates[i]), QuarterLabel(formatted_dates[j])>>
            /\ \A k \in 1..2 :
                 periods[k] # PyNone => Ch(periods[k].s, 2) \in {"1", "2", "3", "4"}

\* the latest date occurs twice: the previous period equals the latest one
C9_Witness ==
    /\ pc = "dates_done"
    /\ text = "15-03-2024 10-12-2023 15-03-2024"
    /\ Len(formatted_dates) = 3
    /\ periods = <<S("Q1 2024"), S("Q1 2024")>>

-----------------------------------------------------------------------------
(* Properties of extract_financial_values *)

\* the 0-based indices of the header cells containing "Particular"
ParticularCells(header) ==
    {i \in 0..(Len(header) - 1) : At(header, i).t = "str" /\ Contains(At(header, i).s, "Particular")}

\* the 0-based indices of the header cells containing "year ended" in any case
YearEndedCells(header) ==
    {i \in 0..(Len(header) - 1) : At(header, i).t = "str" /\ Contains(Lower(At(header, i).s), "year ended")}

SetMax(set) == CHOOSE x \in set : \A y \in set : y <= x

\* the table is a non-empty list of rows and the column mapping has been done
Mapped == pc # "efv_start" /\ table.t = "list" /\ table.xs # <<>>

ExampleHeader ==
    <<S("Sr"), PyNone, S("Particulars"), S("Quarter ended"), S("Half year"), S("Year Ended 31 Mar 2024")>>

\* the column indices the header of the example gives
ExampleMapping == MapColumns(ExampleHeader, 0, <<PyNone, PyNone>>)

\* C6: once the header has been scanned, the current-period column index is one
\* more than the index of the (last) header cell containing "Particular" and the
\* annual column index is the index of the (last) header cell containing
\* "year ended" in any case; "Particulars" at 2 and "Year Ended 31 Mar 2024" at 5
\* give 3 and 5; when either marker is absent the function returns with all six
\* fields unset, whatever the rows are.
C6_ColumnMapping ==
    /\ ExampleMapping = <<PyInt(3), PyInt(5)>>
    /\ Mapped =>
         LET parts == ParticularCells(Header(table))
             years == YearEndedCells(Header(table))
         IN /\ cq_idx = IF parts = {} THEN PyNone ELSE PyInt(SetMax(parts) + 1)
            /\ an_idx = IF years = {} THEN PyNone ELSE PyInt(SetMax(years))
            /\ (parts = {} \/ years = {}) =>
                 /\ pc = "efv_done"
                 /\ \A p \in Periods, m \in Metrics : Field(extracted_data, p, m) = PyNone

\* the header of the example has been mapped and the loop entered
C6_Witness ==
    /\ pc = "efv_loop"
    /\ Header(table) = ExampleHeader
    /\ cq_idx = PyInt(3)
    /\ an_idx = PyInt(5)

\* the row is visited by the loop body and its label contains a synonym of metric
RowMatches(row, metric) ==
    /\ row # <<>>
    /\ At(row, 0).t = "str"
    /\ LET label == Lower(At(row, 0).s)
       IN \E m \in TermDict(metric) : Contains(label, TermLower[m.term])

\* the row the loop has just processed
LastRow == At(Rows(table), row_i - 1)

\* C7: after the loop body has run on a row whose first cell matches two or three
\* of RT, OPT, NPT, every matching dictionary's field holds that row's
\* current-period and annual cell values.
C7_MultiMatch ==
    (pc = "efv_loop" /\ row_i > 0 /\ Cardinality({m \in Metrics : RowMatches(LastRow, m)}) >= 2) =>
        \A m \in Metrics :
            RowMatches(LastRow, m) =>
                /\ Field(extracted_data, "Current Quarter", m) = CellValue(LastRow, cq_idx.v)
                /\ Field(extracted_data, "Annual Data", m) = CellValue(LastRow, an_idx.v)

\* a row matching all three dictionaries has filled all six fields
C7_Witness ==
    /\ pc = "efv_loop"
    /\ row_i > 0
    /\ LastRow # <<>>
    /\ At(LastRow, 0) = S("Turnover, EBIT and PAT")
    /\ \A m \in Metrics :
          /\ Field(extracted_data, "Current Quarter", m) = PyFloat(900)
          /\ Field(extracted_data, "Annual Data", m) = PyFloat(-1000)

\* the 0-based indices of the rows of the table matching metric
MatchingRows(metric) ==
    {i \in 0..(Len(Rows(table)) - 1) : RowMatches(At(Rows(table), i), metric)}

\* C8: when the loop has run over a table in which two or more rows match the
\* same dictionary and the function returns, both fields of that dictionary hold
\* the cell values of the last such row.
C8_LastMatchWins ==
    (pc = "efv_done" /\ Mapped /\ cq_idx # PyNone /\ an_idx # PyNone) =>
        \A m \in Metrics :
            Cardinality(MatchingRows(m)) >= 2 =>
                LET last == At(Rows(table), SetMax(MatchingRows(m)))
                IN /\ Field(extracted_data, "Current Quarter", m) = CellValue(last, cq_idx.v)
                   /\ Field(extracted_data, "Annual Data", m) = CellValue(last, an_idx.v)

\* two Revenue rows with different values: the second one's are returned
C8_Witness ==
    /\ pc = "efv_done"
    /\ Mapped
    /\ Len(Rows(table)) = 3
    /\ At(Rows(table), 1) = <<S("Total Revenue"), S("1,234.50"), S("5,678.90")>>
    /\ At(Rows(table), 2) = <<S("Total Revenue"), S("0"), PyNone>>
    /\ Field(extracted_data, "Current Quarter", "Revenue") = PyFloat(0)
    /\ Field(extracted_data, "Annual Data", "Revenue") = PyNone

-----------------------------------------------------------------------------
(* Documents and LLM responses given to extract_fin_data *)

MaxPages == 2

Row(label, c, a) == <<S(label), S(c), S(a)>>

\* all fields found locally
CleanTable == <<StdHeader, Row("Total Revenue", "1,234.50", "5,678.90"), Row("Net Profit", "500", "50")>>
\* the current-period cells are empty, the annual ones are not
AnnualOnlyTable == <<StdHeader, Row("Total Revenue", "", "5,678.90"), Row("Operating Profit", "", "500")>>
\* the current-period revenue is zero
ZeroTable == <<StdHeader, Row("Total Revenue", "0", "100")>>
\* a cell that is no number
DashTable == <<StdHeader, Row("Net Sales", "N/A", "4")>>
\* no "year ended" column
NoYearTable == <<<<S("Particulars"), S("Q3"), S("FY")>>, Row("Total Revenue", "1", "2")>>
\* no "Particulars" header
OtherTable == <<<<S("Sr"), S("Item")>>, <<S("1"), S("Total Revenue")>>>>

FullText == "Statement of Acme Ltd\nRs in Lakhs 31-12-2023"
PlainText == "Notes 2024"
\* two units, not in the order of the list; digit runs that are no 4-digit token
MixedText == "USD Millions, Rs Crores 12345 FY2022 2021"

Page(t, tbls, o) == [text |-> t, tables |-> tbls, ocr |-> o]

Pages == {
    Page(S(FullText), <<CleanTable>>, FullText),
    Page(S(FullText), <<AnnualOnlyTable>>, FullText),
    Page(S(PlainText), <<ZeroTable>>, PlainText),
    Page(S(MixedText), <<AnnualOnlyTable>>, MixedText),
    Page(S(PlainText), <<DashTable>>, PlainText),
    Page(S(FullText), <<NoYearTable>>, FullText),
    Page(S(PlainText), <<OtherTable, CleanTable>>, PlainText),
    Page(S(PlainText), <<>>, "Revenue 100"),
    Page(PyNone, <<>>, "Revenue 100 Crores"),
    Page(S(" \n"), <<>>, ""),
    Page(S(""), <<>>, "") }

Documents == SeqsOf(Pages, 0, MaxPages)

LLMSections == {
    PyNone,
    EmptyDict,
    PyDict("Revenue" :> PyInt(999) @@ "Operating Profit" :> PyInt(50)),
    PyDict("Revenue" :> PyNone @@ "Operating Profit" :> PyNone @@ "Net Profit" :> PyNone
           @@ "Unit" :> S("Crores")),
    PyDict("Revenue" :> PyInt(0) @@ "Net Profit" :> PyNone),
    PyDict("Year" :> S("2023") @@ "Revenue" :> PyNone @@ "Unit" :> S("Millions")) }

LLMNames == {PyNone, S("Acme Limited")}

\* the objects json.loads can return: each of the three keys present or not
LLMObjects ==
    { PyDict([k \in ks |-> CASE k = "Company Name" -> n
                             [] k = "Current Quarter" -> c
                             [] k = "Annual Data" -> a]) :
        ks \in SUBSET {"Company Name", "Current Quarter", "Annual Data"},
        n \in LLMNames, c \in LLMSections, a \in LLMSections }

\* the order in which the keys of an object are written
KeyOrder == <<"Company Name", "Current Quarter", "Annual Data", "Year", "Revenue",
              "Operating Profit", "Net Profit", "Unit">>

RECURSIVE Dumps(_), DumpsMembers(_, _, _)
\* the JSON text of a value: null, an integer, a string, an object
Dumps(x) ==
    CASE x.t = "None" -> "null"
      [] x.t = "int" -> IntToStr(x.v)
      [] x.t = "str" -> "\"" \o x.s \o "\""
      [] x.t = "dict" -> "{" \o DumpsMembers(x, 1, "") \o "}"

\* the members of dct with a key among KeyOrder[k..], separated by ", "
DumpsMembers(dct, k, sep) ==
    IF k > Len(KeyOrder) THEN ""
    ELSE IF KeyOrder[k] \in DOMAIN dct.d
         THEN sep \o "\"" \o KeyOrder[k] \o "\": " \o Dumps(dct.d[KeyOrder[k]])
                  \o DumpsMembers(dct, k + 1, ", ")
         ELSE DumpsMembers(dct, k + 1, sep)

\* responses that hold one JSON object: bare, in prose, on several lines
ObjectTexts ==
    {Dumps(o) : o \in LLMObjects}
    \cup {"Here is the JSON:\n" \o Dumps(o) \o "\nLet me know." :
            o \in {PyDict("Company Name" :> S("Acme Limited")),
                   PyDict("Annual Data" :> PyDict("Revenue" :> PyInt(999) @@ "Operating Profit" :> PyInt(50)))}}
    \cup {"json\n{\n  \"Company Name\": \"Acme Limited\",\n  \"Current Quarter\": {\"Revenue\": 999}\n}\n"}

\* responses with no {...} span
NoSpanTexts == {"", "I could not find any financial data.", "} nothing {", "{\"Revenue\": 999"}

\* responses whose {...} span is no JSON document
BadSpanTexts == {
    "{not json}",
    "{\"Company Name\": \"Acme Limited\",}",
    "{\"Company Name\": \"Acme Limited\"} or {\"Current Quarter\": {\"Revenue\": 999}}",
    "{\"Current Quarter\": {\"Revenue\": 999}",
    "{\"Current Quarter\": {\"Revenue\": X}, \"Company Name\": \"Acme Limited\"}",
    "{'Company Name': 'Acme Limited'}" }

ResponseTexts == ObjectTexts \cup NoSpanTexts \cup BadSpanTexts

\* what the model can answer: response.text
LLMResponses == {[text |-> t] : t \in ResponseTexts}

-----------------------------------------------------------------------------
(* use_gemini_extraction and extract_fin_data, lines 136-225 *)

\* the position of the first c in s at or after position i, or 0
RECURSIVE FirstAt(_, _, _)
FirstAt(s, c, i) ==
    IF i > Len(s) THEN 0 ELSE IF Ch(s, i) = c THEN i ELSE FirstAt(s, c, i + 1)

\* the position of the last c in s at or before position i, or 0
RECURSIVE LastAt(_, _, _)
LastAt(s, c, i) ==
    IF i < 1 THEN 0 ELSE IF Ch(s, i) = c THEN i ELSE LastAt(s, c, i - 1)

\* line 171: re.search(r"\{.*\}", txt, re.DOTALL).group(), or None. The greedy
\* .* runs from the first "{" to the last "}" after it.
JsonSpan(txt) ==
    LET open == FirstAt(txt, "{", 1)
        close == LastAt(txt, "}", Len(txt))
    IN IF open # 0 /\ close > open THEN PyStr(SubSeq(txt, open, close)) ELSE PyNone

\* JsonSpan with a lazy .*?: from the first "{" to the first "}" after it
JsonSpan_Lazy(txt) ==
    LET open == FirstAt(txt, "{", 1)
        close == IF open = 0 THEN 0 ELSE FirstAt(txt, "}", open)
    IN IF close # 0 THEN PyStr(SubSeq(txt, open, close)) ELSE PyNone

JsonFail == [ok |-> FALSE]
JsonOk(v, p) == [ok |-> TRUE, v |-> v, p |-> p]

\* the first position at or after i that holds no JSON white space
SkipWs(s, i) == i + RunOf(s, i, {" ", "\t", "\n", "\r"})

\* the closing quote of a string whose characters start at i, or 0; the strings
\* of this model carry no escapes
RECURSIVE QuoteAt(_, _)
QuoteAt(s, i) ==
    IF i > Len(s) THEN 0
    ELSE IF Ch(s, i) = "\"" THEN i
    ELSE IF Ch(s, i) \in {"\\", "\n", "\t", "\r"} THEN 0
    ELSE QuoteAt(s, i + 1)

\* a JSON string at position i
ParseString(s, i) ==
    IF i <= Len(s) /\ Ch(s, i) = "\"" /\ QuoteAt(s, i + 1) # 0
    THEN JsonOk(PyStr(SubSeq(s, i + 1, QuoteAt(s, i + 1) - 1)), QuoteAt(s, i + 1) + 1)
    ELSE JsonFail

\* a JSON integer at position i: -?(0|[1-9][0-9]*); the numbers of this model
\* carry no fraction and no exponent
ParseNumber(s, i) ==
    LET neg == i <= Len(s) /\ Ch(s, i) = "-"
        d == IF neg THEN i + 1 ELSE i
        n == IF d <= Len(s) /\ Ch(s, d) = "0" THEN 1 ELSE DigitRun(s, d)
        sign == IF neg THEN -1 ELSE 1
    IN IF n = 0 THEN JsonFail
       ELSE JsonOk(PyInt(sign * DigitsVal(SubSeq(s, d, d + n - 1))), d + n)

RECURSIVE ParseValue(_, _), ParseMembers(_, _, _)
\* a JSON value at position i, which holds no white space
ParseValue(s, i) ==
    IF i > Len(s) THEN JsonFail
    ELSE IF Ch(s, i) = "{"
         THEN LET j == SkipWs(s, i + 1)
              IN IF j <= Len(s) /\ Ch(s, j) = "}" THEN JsonOk(EmptyDict, j + 1)
                 ELSE ParseMembers(s, j, EmptyDict)
    ELSE IF Ch(s, i) = "\"" THEN ParseString(s, i)
    ELSE IF i + 3 <= Len(s) /\ SubSeq(s, i, i + 3) = "null" THEN JsonOk(PyNone, i + 4)
    ELSE ParseNumber(s, i)

\* the members of an object from the key at position i on, acc holding the
\* earlier ones; a repeated key keeps its last value
ParseMembers(s, i, acc) ==
    LET key == ParseString(s, i)
        colon == SkipWs(s, key.p)
        val == ParseValue(s, SkipWs(s, colon + 1))
        next == SkipWs(s, val.p)
    IN IF ~key.ok THEN JsonFail
       ELSE IF ~(colon <= Len(s) /\ Ch(s, colon) = ":") THEN JsonFail
       ELSE IF ~val.ok THEN JsonFail
       ELSE IF next > Len(s) THEN JsonFail
       ELSE IF Ch(s, next) = "}" THEN JsonOk(DictSet(acc, key.v.s, val.v), next + 1)
       ELSE IF Ch(s, next) = "," THEN ParseMembers(s, SkipWs(s, next + 1), DictSet(acc, key.v.s, val.v))
       ELSE JsonFail

\* line 173: json.loads(s): the value of the document, or JSONDecodeError
json_loads(s) ==
    LET v == ParseValue(s, SkipWs(s, 1))
    IN IF v.ok /\ SkipWs(s, v.p) > Len(s) THEN v.v ELSE PyRaise("JSONDecodeError")

\* lines 170-176 on a response text: the object, or None when there is no span
\* or json.loads raised
ParseResponse(txt) ==
    LET json_match == JsonSpan(txt)
        loaded == json_loads(json_match.s)
    IN IF ~Truthy(json_match) THEN PyNone
       ELSE IF loaded.t = "raise" THEN PyNone
       ELSE loaded

\* ParseResponse with the lazy span
ParseResponse_Lazy(txt) ==
    LET json_match == JsonSpan_Lazy(txt)
        loaded == json_loads(json_match.s)
    IN IF ~Truthy(json_match) THEN PyNone
       ELSE IF loaded.t = "raise" THEN PyNone
       ELSE loaded

\* ParseResponse, ParseResponse_Lazy of every response text of the model
Parsed == [t \in ResponseTexts |-> ParseResponse(t)]
Parsed_Lazy == [t \in ResponseTexts |-> ParseResponse_Lazy(t)]

\* use_gemini_extraction taking the first "{" ... "}" span
use_gemini_extraction_Lazy(answer) == Parsed_Lazy[answer.text]

\* lines 167-176, on the response the model gave
use_gemini_extraction(answer) == Parsed[answer.text]

\* x or y
Or(x, y) == IF Truthy(x) THEN x ELSE y

\* dct.update(arg): the updated dict, or the TypeError of a None argument
Update(dct, arg) ==
    IF arg.t = "dict" THEN DictUpdate(dct, arg) ELSE PyRaise("TypeError")

\* lines 213-214: both sections merged into data, or the exception raised
MergeSections(data, ai) ==
    LET cq == Update(data.d["Current Quarter"], DictGet(ai, "Current Quarter", EmptyDict))
        an == Update(data.d["Annual Data"], DictGet(ai, "Annual Data", EmptyDict))
    IN IF cq.t = "raise" THEN cq
       ELSE IF an.t = "raise" THEN an
       ELSE DictSet(DictSet(data, "Current Quarter", cq), "Annual Data", an)

\* line 211 (and the first half of 217)
NeedsFallback(data) == ~AnyValues(data.d["Current Quarter"])

\* line 217
NothingFound(data) ==
    ~AnyValues(data.d["Current Quarter"]) /\ ~AnyValues(data.d["Annual Data"])

\* lines 201, 218
Error404 ==
    PyDict("error-status" :> PyInt(404) @@ "message" :> S("No financial data found in the document."))

RECURSIVE PagesText(_)
\* lines 195-196: page.extract_text() or "" of every page, concatenated
PagesText(doc) ==
    IF doc = <<>> THEN ""
    ELSE Or(Head(doc).text, S("")).s \o PagesText(Tail(doc))

\* Finished keeping a Year or Unit the sections already carry
Finished_KeepLLM(data, txt, unit, name) ==
    LET keep(section, k, v) == IF k \in DOMAIN section.d THEN section ELSE DictSet(section, k, v)
        d1 == DictSet(data, "Annual Data", keep(data.d["Annual Data"], "Year", find_year(txt)))
        d2 == DictSet(d1, "Current Quarter", keep(d1.d["Current Quarter"], "Unit", unit))
        d3 == DictSet(d2, "Annual Data", keep(d2.d["Annual Data"], "Unit", unit))
    IN DictSet(d3, "Company Name", name)

\* lines 220-223
Finished(data, txt, unit, name) ==
    LET d1 == DictSet(data, "Annual Data", DictSet(data.d["Annual Data"], "Year", find_year(txt)))
        d2 == DictSet(d1, "Current Quarter", DictSet(d1.d["Current Quarter"], "Unit", unit))
        d3 == DictSet(d2, "Annual Data", DictSet(d2.d["Annual Data"], "Unit", unit))
    IN DictSet(d3, "Company Name", name)

\* lines 193-201
FD_ReadText ==
    /\ pc = "fd_start"
    /\ extracted_text' = PagesText(pdf)
    /\ full_financial_text' = extracted_text'
    /\ IF Strip(extracted_text') = ""
       THEN /\ pc' = "fd_return_201"
            /\ result' = Error404
       ELSE /\ pc' = "fd_text"
            /\ UNCHANGED result
    /\ UNCHANGED <<pdf, quarters, fin_unit, fin_data, company_name, ai_data, llm_calls,
                   response, tableVars, dateVars>>
    /\ UNCHANGED chatVars

\* lines 203-209. A ValueError of extract_financial_values is not caught.
FD_Local ==
    /\ pc = "fd_text"
    /\ quarters' = extract_dates_from_text(extracted_text)
    /\ fin_unit' = detect_fin_unit(extracted_text)
    /\ table' = extract_table_or_text(pdf)
    /\ LET values == extract_financial_values(table')
       IN IF values.t = "raise"
          THEN /\ pc' = "fd_raised"
               /\ result' = values
               /\ UNCHANGED <<fin_data, company_name>>
          ELSE /\ pc' = "fd_local"
               /\ fin_data' = values
               /\ company_name' = extract_company_name(extracted_text)
               /\ UNCHANGED result
    /\ UNCHANGED <<pdf, extracted_text, full_financial_text, ai_data, llm_calls,
                   response, cq_idx, an_idx, row_i, extracted_data, dateVars>>
    /\ UNCHANGED chatVars

\* lines 211-215, the condition of line 211 true: the LLM is asked and answers
\* with any response. A TypeError of dict.update is not caught.
FD_Fallback ==
    /\ pc = "fd_local"
    /\ NeedsFallback(fin_data)
    /\ \E answer \in LLMResponses :
          LET ai == Or(use_gemini_extraction(answer), EmptyDict)
              merged == MergeSections(fin_data, ai)
          IN /\ response' = answer
             /\ ai_data' = ai
             /\ llm_calls' = llm_calls + 1
             /\ IF merged.t = "raise"
                THEN /\ pc' = "fd_raised"
                     /\ result' = merged
                     /\ UNCHANGED <<fin_data, company_name>>
                ELSE /\ pc' = "fd_merged"
                     /\ fin_data' = merged
                     /\ company_name' = DictGet(ai, "Company Name", company_name)
                     /\ UNCHANGED result
    /\ UNCHANGED <<pdf, extracted_text, full_financial_text, quarters, fin_unit,
                   tableVars, dateVars>>
    /\ UNCHANGED chatVars

\* line 211, the condition false
FD_NoFallback ==
    /\ pc = "fd_local"
    /\ ~NeedsFallback(fin_data)
    /\ pc' = "fd_merged"
    /\ UNCHANGED <<pipeVars, tableVars, dateVars>>
    /\ UNCHANGED chatVars

\* lines 217-225
FD_Finish ==
    /\ pc = "fd_merged"
    /\ IF NothingFound(fin_data)
       THEN /\ pc' = "fd_return_218"
            /\ result' = Error404
            /\ UNCHANGED fin_data
       ELSE /\ pc' = "fd_return_225"
            /\ fin_data' = Finished(fin_data, extracted_text, fin_unit, company_name)
            /\ result' = fin_data'
    /\ UNCHANGED <<pdf, extracted_text, full_financial_text, quarters, fin_unit,
                   company_name, ai_data, llm_calls, response, tableVars, dateVars>>
    /\ UNCHANGED chatVars

Init ==
    /\ pc = "fd_start"
    /\ pdf \in Documents
    /\ extracted_text = ""
    /\ full_financial_text = ""
    /\ quarters = <<PyNone, PyNone>>
    /\ fin_unit = PyNone
    /\ fin_data = PyNone
    /\ company_name = PyNone
    /\ ai_data = PyNone
    /\ llm_calls = 0
    /\ response = PyNone
    /\ result = PyNone
    /\ IdleTable
    /\ IdleDates
    /\ IdleChat

Next == FD_ReadText \/ FD_Local \/ FD_Fallback \/ FD_NoFallback \/ FD_Finish

Spec == Init /\ [][Next]_vars

-----------------------------------------------------------------------------
(* Properties of extract_fin_data *)

\* the function f written out, each of its values computed once
Tabulated(f) == f @@ [k \in {} |-> k]

\* what the local table parse of each document gives, before any fallback
LocalDataOf == Tabulated([doc \in Documents |-> extract_financial_values(extract_table_or_text(doc))])
LocalData == LocalDataOf[pdf]

\* lines 211-215 are behind
AfterMerge == pc \in {"fd_merged", "fd_return_218", "fd_return_225"}

\* C1: after the fallback merge every Revenue / Operating Profit / Net Profit
\* field of either period that the local table parse populated still holds its
\* locally parsed value.
C1_LocalWins ==
    (AfterMerge /\ llm_calls > 0) =>
        \A p \in Periods, m \in Metrics :
            Field(LocalData, p, m) # PyNone => Field(fin_data, p, m) = Field(LocalData, p, m)

\* the table extract_table_or_text returned has a "Particulars" header cell and
\* a "year ended" header cell
CleanTableFound ==
    /\ table.t = "list"
    /\ ParticularCells(Header(table)) # {}
    /\ YearEndedCells(Header(table)) # {}

\* C2: with a table that has both header markers, the LLM is never asked when
\* the local parse populated at least one of the six fields.
C2_NoFallbackWhenPopulated ==
    (AfterMerge /\ CleanTableFound /\ \E p \in Periods, m \in Metrics : Field(LocalData, p, m) # PyNone)
        => llm_calls = 0

\* C3: when the text is not blank and, after local extraction and the merge, no
\* Revenue / Operating Profit / Net Profit field of either period is populated,
\* the 404 object is returned.
C3_NothingFoundIs404 ==
    (pc \in {"fd_return_218", "fd_return_225"}
        /\ \A p \in Periods, m \in Metrics : DictGet(fin_data.d[p], m, PyNone) = PyNone)
        => result = Error404

\* some table of some page has a header cell containing "Particulars"
MarkedTableExists ==
    \E k \in 1..Len(pdf) : \E j \in 1..Len(pdf[k].tables) : HasParticularsHeader(pdf[k].tables[j])

\* extract_table_or_text has been called
Located == pc \in {"fd_local", "fd_raised", "fd_merged", "fd_return_218", "fd_return_225"}

\* C4: extract_table_or_text returns a table with a "Particulars" header cell
\* whenever some page has one, and OCR text (or nothing) only when no page has.
C4_TableOnAnyPage ==
    Located =>
        IF MarkedTableExists
        THEN table.t = "list" /\ HasParticularsHeader(table.xs)
        ELSE table.t \in {"str", "None"}

\* C5: the 404 object is returned at the content check only when neither the
\* structured text nor the OCR text of the document is non-blank.
C5_ContentCheckUsesOCR ==
    pc = "fd_return_201" =>
        /\ Strip(PagesText(pdf)) = ""
        /\ \A k \in 1..Len(pdf) : Strip(pdf[k].ocr) = ""

\* C10: no run of extract_fin_data ends with an exception.
C10_NoException == pc # "fd_raised"

\* the response texts with no {...} span, or with a span on which json.loads raises
UnparseableTexts ==
    {t \in ResponseTexts :
        LET json_match == JsonSpan(t)
        IN ~Truthy(json_match) \/ json_loads(json_match.s).t = "raise"}

\* what extract_company_name finds in the text of each document
LocalNameOf == Tabulated([doc \in Documents |-> extract_company_name(PagesText(doc))])
LocalName == LocalNameOf[pdf]

\* C11: when the LLM was asked and its response holds no brace-delimited span,
\* or the span is no JSON document, use_gemini_extraction gives no result and
\* nothing is raised: the fallback data is the empty dict, and the merge leaves
\* both sections and the company name as local extraction produced them.
C11_UnparseableKeepsLocal ==
    (llm_calls > 0 /\ response.text \in UnparseableTexts) =>
        /\ use_gemini_extraction(response) = PyNone
        /\ pc # "fd_raised"
        /\ ai_data = EmptyDict
        /\ company_name = LocalName
        /\ LET local == LocalData
           IN /\ pc = "fd_merged" => fin_data = local
              /\ \A p \in Periods, m \in Metrics : Field(fin_data, p, m) = Field(local, p, m)
        /\ pc = "fd_return_225" => result.d["Company Name"] = LocalName

\* a response of two objects, whose span from the first "{" to the last "}" is
\* no JSON document, met a document with annual values only: the result carries
\* the local annual revenue and the local name
C11_Witness ==
    /\ pc = "fd_return_225"
    /\ llm_calls = 1
    /\ response.text = "{\"Company Name\": \"Acme Limited\"} or {\"Current Quarter\": {\"Revenue\": 999}}"
    /\ Field(result, "Annual Data", "Revenue") = PyFloat(567890)
    /\ Field(result, "Current Quarter", "Revenue") = PyNone
    /\ result.d["Company Name"] = LocalName
    /\ LocalName # S("Unknown Company")
    /\ LocalName # S("Acme Limited")

\* the fallback ran and the object the LLM gave has a company name that is not null
NameProvided ==
    /\ llm_calls > 0
    /\ "Company Name" \in DOMAIN ai_data.d
    /\ ai_data.d["Company Name"] # PyNone

\* C12: the 'Company Name' of a result is the LLM's when the fallback ran and
\* the LLM gave one, and otherwise (no fallback, key missing, null) the name
\* extract_company_name found in the text, 'Unknown Company' when it found none.
C12_CompanyName ==
    pc = "fd_return_225" =>
        result.d["Company Name"] =
            IF NameProvided THEN ai_data.d["Company Name"] ELSE LocalName

-----------------------------------------------------------------------------
(* The chat of the results page, lines 474-483 and 617-629 *)

MaxTurns == 2

\* what the user can have in the text box
Queries == {"", "What is the revenue?", "Is it in profit?"}

\* what generate_chatbot_response gives: response.text of the LLM, or the
\* exception of a failed request or of a response without text
ChatOutcomes ==
    {S("Revenue is 1234.5 Lakhs."), S("Not available in the data.")}
    \cup {PyRaise("Exception")}

\* {"role": role, "content": content}
Message(role, content) == PyDict("role" :> S(role) @@ "content" :> content)

\* the messages of st.session_state.chat_history, none while the key is absent
History(h) == IF h = PyNone THEN <<>> ELSE h.xs

\* lines 476-477, 620-621: `if key not in st.session_state: ... = default`
SetDefault(value, default) == IF value = PyNone THEN default ELSE value

\* the user changes the text of the box and presses Enter: the script runs again
Chat_Input ==
    /\ pc = "chat_idle"
    /\ Len(History(chat_history)) < 2 * MaxTurns
    /\ \E q \in Queries \ {user_query} : user_query' = q
    /\ pc' = "chat_run"
    /\ UNCHANGED <<chat_history, last_handled_query, tableVars, dateVars, pipeVars>>

\* any other interaction reruns the script; the box keeps its text
Chat_Rerun ==
    /\ pc = "chat_idle"
    /\ Len(History(chat_history)) < 2 * MaxTurns
    /\ pc' = "chat_run"
    /\ UNCHANGED <<chatVars, tableVars, dateVars, pipeVars>>

\* one run of the script on the results page: lines 474-483 and 617-629. The
\* lists of st.session_state are changed in place, so what was appended before
\* an exception of line 626 stays; st.rerun() of line 629 starts the next run.
Chat_Script ==
    /\ pc = "chat_run"
    /\ LET history == SetDefault(chat_history, PyList(<<>>))
           last == SetDefault(last_handled_query, S(""))
       IN IF user_query # "" /\ S(user_query) # last
          THEN \E answer \in ChatOutcomes :
                  LET asked == Append(history.xs, Message("user", S(user_query)))
                  IN IF answer.t = "raise"
                     THEN /\ chat_history' = PyList(asked)
                          /\ last_handled_query' = last
                          /\ pc' = "chat_idle"
                     ELSE /\ chat_history' = PyList(Append(asked, Message("assistant", answer)))
                          /\ last_handled_query' = S(user_query)
                          /\ pc' = "chat_run"
          ELSE /\ chat_history' = history
               /\ last_handled_query' = last
               /\ pc' = "chat_idle"
    /\ UNCHANGED <<user_query, tableVars, dateVars, pipeVars>>

\* a new session: nothing in st.session_state, the first run of the script due
InitChat ==
    /\ pc = "chat_run"
    /\ chat_history = PyNone
    /\ last_handled_query = PyNone
    /\ user_query = ""
    /\ IdleTable
    /\ IdleDates
    /\ IdlePipe

NextChat == Chat_Input \/ Chat_Rerun \/ Chat_Script

SpecChat == InitChat /\ [][NextChat]_vars

-----------------------------------------------------------------------------
(* Properties of the chat *)

\* the messages of old are the first messages of new, unchanged and in order
IsPrefix(old, new) == Len(old) <= Len(new) /\ SubSeq(new, 1, Len(old)) = old

\* user, assistant, user, assistant, ...: an even number of messages
Alternates(msgs) ==
    /\ Len(msgs) % 2 = 0
    /\ \A k \in 1..Len(msgs) :
          msgs[k].d["role"] = S(IF k % 2 = 1 THEN "user" ELSE "assistant")

\* C13: every step leaves chat_history as it was or appends to it exactly one
\* 'user' message holding the query followed by one 'assistant' message, and
\* only for a query that is not empty and differs from last_handled_query; so
\* the history only grows, alternates user, assistant and has even length.
C13_AppendOnlyPairs ==
    [][ LET old == History(chat_history)
            new == History(chat_history')
        IN /\ IsPrefix(old, new)
           /\ Alternates(new)
           /\ \/ new = old
              \/ /\ user_query # ""
                 /\ S(user_query) # SetDefault(last_handled_query, S(""))
                 /\ \E answer \in ChatOutcomes :
                       new = old \o <<Message("user", S(user_query)), Message("assistant", answer)>>
      ]_vars

\* chat_history never loses or changes a message
ChatAppendOnly == [][IsPrefix(History(chat_history), History(chat_history'))]_vars

\* after a run in which the query was the handled one, nothing was appended
SameQueryAppendsNothing ==
    [][(pc = "chat_run" /\ S(user_query) = last_handled_query) => chat_history' = chat_history]_vars

-----------------------------------------------------------------------------
(* Properties of the cells of a matching row *)

\* the cell of row at 0-based index idx is beyond the row, None or empty
CellAbsent(row, idx) ==
    \/ idx >= Len(row)
    \/ At(row, idx) = PyNone
    \/ At(row, idx) = S("")

\* the cell is there and, its commas removed, writes a number
CellNumeric(row, idx) ==
    /\ ~CellAbsent(row, idx)
    /\ IsFloatLiteral(RemoveChar(At(row, idx).s, ","))

\* what a period's field holds after a matching row: nothing for an absent
\* cell, the number of a numeric one
FieldFromCell(value, row, idx) ==
    /\ CellAbsent(row, idx) => value = PyNone
    /\ CellNumeric(row, idx) => value = float(RemoveChar(At(row, idx).s, ","))

ExampleRow == <<S("Total Revenue"), S("1,234.50"), S("-"), S("5,678.90")>>

\* the loop body on the example row with current index 1 and annual index 3
ExampleFields == ProcessRow(EmptyExtracted, ExampleRow, 1, 3)

\* C14: after the loop body has run on a row matching a dictionary, each of the
\* two fields of that dictionary depends on its own cell only: unset when the
\* cell is beyond the row, None or empty, the cell's number when it writes one,
\* whatever the other cell is; an absent cell raises nothing (the body raises
\* only on a cell that is there and writes no number); the example row with
\* current index 1 and annual index 3 gives 1234.50 and 5678.90.
C14_CellsIndependent ==
    /\ Field(ExampleFields, "Current Quarter", "Revenue") = PyFloat(123450)
    /\ Field(ExampleFields, "Annual Data", "Revenue") = PyFloat(567890)
    /\ (pc = "efv_loop" /\ row_i > 0) =>
          \A m \in Metrics :
              RowMatches(LastRow, m) =>
                  /\ FieldFromCell(Field(extracted_data, "Current Quarter", m), LastRow, cq_idx.v)
                  /\ FieldFromCell(Field(extracted_data, "Annual Data", m), LastRow, an_idx.v)
    /\ (pc = "efv_raised" /\ row_i > 0) =>
          \E idx \in {cq_idx.v, an_idx.v} :
              ~CellAbsent(LastRow, idx) /\ ~CellNumeric(LastRow, idx)

\* a three-cell row under a header whose annual column is the fourth: the
\* current value is taken, the annual field is unset
C14_Witness ==
    /\ pc = "efv_loop"
    /\ row_i > 0
    /\ cq_idx = PyInt(1)
    /\ an_idx = PyInt(3)
    /\ LastRow = <<S("Total Revenue"), S("1,234.50"), S("5,678.90")>>
    /\ Field(extracted_data, "Current Quarter", "Revenue") = PyFloat(123450)
    /\ Field(extracted_data, "Annual Data", "Revenue") = PyNone

-----------------------------------------------------------------------------
(* Properties of the Unit, Year and Company Name of a result *)

SetMin(set) == CHOOSE x \in set : \A y \in set : x <= y

\* the first unit of the list that the text contains in any case, else "Unknown"
UnitOfText(txt) ==
    LET lowered == Lower(txt)
        found == {k \in 1..Len(Units) : Contains(lowered, Lower(Units[k]))}
    IN IF found = {} THEN S("Unknown") ELSE S(Units[SetMin(found)])

\* the first run of exactly four digits of the text standing between word
\* boundaries, else "Unknown Year"
YearOfText(txt) ==
    LET starts == {i \in 1..Len(txt) :
                      BoundaryAt(txt, i) /\ DigitRun(txt, i) = 4 /\ BoundaryAt(txt, i + 4)}
    IN IF starts = {} THEN S("Unknown Year") ELSE S(SubSeq(txt, SetMin(starts), SetMin(starts) + 3))

\* the unit and the year of the text of each document
UnitOfDocument == Tabulated([doc \in Documents |-> UnitOfText(PagesText(doc))])
YearOfDocument == Tabulated([doc \in Documents |-> YearOfText(PagesText(doc))])

\* the unit and the year of the text with two units
MixedUnit == detect_fin_unit(MixedText)
MixedYear == find_year(MixedText)

\* C15: every result that is no error object has the key 'Company Name', a
\* 'Unit' in both sections and a 'Year' in 'Annual Data'; both Units are the
\* unit detected in the text of the document and the Year is its first
\* four-digit token, whatever Unit or Year the LLM fallback gave; of two units
\* in the text the first of the list Crores, Lakhs, Millions, Billions is taken.
C15_UnitYearFromText ==
    /\ MixedUnit = S("Crores")
    /\ MixedYear = S("2021")
    /\ pc = "fd_return_225" =>
            /\ result # Error404
            /\ "Company Name" \in DOMAIN result.d
            /\ "Unit" \in DOMAIN result.d["Current Quarter"].d
            /\ "Unit" \in DOMAIN result.d["Annual Data"].d
            /\ "Year" \in DOMAIN result.d["Annual Data"].d
            /\ result.d["Current Quarter"].d["Unit"] = result.d["Annual Data"].d["Unit"]
            /\ result.d["Annual Data"].d["Unit"] = UnitOfDocument[pdf]
            /\ result.d["Annual Data"].d["Year"] = YearOfDocument[pdf]

\* the LLM gave Unit 'Crores' / 'Millions' and Year '2023' for a document whose
\* text names no unit and has 2024 as its first four-digit token
C15_Witness ==
    /\ pc = "fd_return_225"
    /\ llm_calls = 1
    /\ DictGet(ai_data, "Current Quarter", EmptyDict).t = "dict"
    /\ DictGet(ai_data, "Annual Data", EmptyDict).t = "dict"
    /\ DictGet(DictGet(ai_data, "Current Quarter", EmptyDict), "Unit", PyNone) = S("Crores")
    /\ DictGet(DictGet(ai_data, "Annual Data", EmptyDict), "Unit", PyNone) = S("Millions")
    /\ DictGet(DictGet(ai_data, "Annual Data", EmptyDict), "Year", PyNone) = S("2023")
    /\ result.d["Current Quarter"].d["Unit"] = S("Unknown")
    /\ result.d["Annual Data"].d["Unit"] = S("Unknown")
    /\ result.d["Annual Data"].d["Year"] = S("2024")
====
